---- MODULE Spec2Model ----
(***************************************************************************)
(* Catalog reconciliation and transcription lifecycle of                   *)
(* whisper-media-catalog: VideoProcessor (lib/video_processor.py) and      *)
(* VideoTranscriber (lib/transcriber/transcriber.py) over the Video /      *)
(* Transcription / Keyword tables of lib/database/models.py.               *)
(*                                                                         *)
(* Text is modelled as a sequence of one-character strings, so that        *)
(* lower(), capitalize(), split(), strip() and rstrip() are computed as    *)
(* Python computes them.                                                   *)
(***************************************************************************)
EXTENDS Integers, Sequences, FiniteSets, TLC

(***************************************************************************)
(* Python str primitives                                                   *)
(***************************************************************************)
Lowers ==
  <<"a","b","c","d","e","f","g","h","i","j","k","l","m","n","o","p","q","r","s","t","u","v","w","x","y","z">>

Uppers ==
  <<"A","B","C","D","E","F","G","H","I","J","K","L","M","N","O","P","Q","R","S","T","U","V","W","X","Y","Z">>

ToLower == [c \in {Uppers[i] : i \in 1..26} |-> Lowers[CHOOSE i \in 1..26 : Uppers[i] = c]]

ToUpper == [c \in {Lowers[i] : i \in 1..26} |-> Uppers[CHOOSE i \in 1..26 : Lowers[i] = c]]

\* str.lower() on one character
LowerC(c) == IF c \in DOMAIN ToLower THEN ToLower[c] ELSE c

\* str.upper() on one character
UpperC(c) == IF c \in DOMAIN ToUpper THEN ToUpper[c] ELSE c

\* str.lower()
Lower(s) == [i \in 1..Len(s) |-> LowerC(s[i])]

\* str.capitalize(): first character upper-cased, the rest lower-cased
Capitalize(s) == [i \in 1..Len(s) |-> IF i = 1 THEN UpperC(s[i]) ELSE LowerC(s[i])]

\* c in s
HasChar(s, c) == \E i \in 1..Len(s) : s[i] = c

RECURSIVE Find(_, _, _)
\* s.find(d, i), 1-based; 0 when d is not found
Find(s, d, i) ==
  IF i > Len(s) THEN 0 ELSE IF s[i] = d THEN i ELSE Find(s, d, i + 1)

RECURSIVE SplitOn(_, _)
\* str.split(d) with a one-character separator: empty pieces are kept
SplitOn(s, d) ==
  LET i == Find(s, d, 1)
  IN  IF i = 0
        THEN <<s>>
        ELSE <<SubSeq(s, 1, i-1)>> \o SplitOn(SubSeq(s, i+1, Len(s)), d)

NonEmpty(w) == w # <<>>

\* the whitespace characters the texts of the model hold
Whitespace == {" ", "\n"}

\* str.split() without argument: split on runs of whitespace, no empty pieces
SplitWS(s) ==
  SelectSeq(SplitOn([i \in 1..Len(s) |-> IF s[i] \in Whitespace THEN " " ELSE s[i]], " "),
            NonEmpty)

RECURSIVE Join(_, _)
\* sep.join(parts)
Join(parts, sep) ==
  IF parts = <<>> THEN <<>>
  ELSE IF Len(parts) = 1 THEN parts[1]
  ELSE parts[1] \o sep \o Join(Tail(parts), sep)

RECURSIVE LStrip(_)
LStrip(s) == IF s # <<>> /\ s[1] \in Whitespace THEN LStrip(Tail(s)) ELSE s

RECURSIVE RStripSet(_, _)
\* str.rstrip(chars)
RStripSet(s, chars) ==
  IF s # <<>> /\ s[Len(s)] \in chars THEN RStripSet(SubSeq(s, 1, Len(s)-1), chars) ELSE s

\* str.strip()
Strip(s) == RStripSet(LStrip(s), Whitespace)

\* seq[:n]
Take(s, n) == SubSeq(s, 1, IF Len(s) < n THEN Len(s) ELSE n)

(***************************************************************************)
(* VideoTranscriber.format_keyword_case                                    *)
(***************************************************************************)
\* the values of special_cases; every key of the table is the lower() of its value
SpecialCaseValues ==
  { <<"A","T","&","T">>, <<"T","-","M","o","b","i","l","e">>, <<"P","S","E","&","G">>,
    <<"V","e","r","i","z","o","n">>, <<"A","T">>, <<"A","O","L">>, <<"I","B","M">>,
    <<"H","P">>, <<"F","C","C">>, <<"N","A","S","A">>, <<"C","N","N">>, <<"B","B","C">>,
    <<"N","B","C">>, <<"A","B","C">>, <<"C","B","S">>, <<"E","S","P","N">>,
    <<"F","B","I">>, <<"C","I","A">>, <<"D","E","A">>, <<"A","T","M">>,
    <<"H","T","M","L">>, <<"C","S","S">>, <<"P","H","P">>, <<"U","S","A">>, <<"U","K">>,
    <<"U","N">>, <<"E","U">>, <<"M","S","N","B","C">>, <<"T","V">>, <<"G","P","S">>,
    <<"H","B","O">>, <<"W","i","F","i">>, <<"V","P","N">>, <<"S","M","S">>,
    <<"M","M","S">> }

\* the dict special_cases
SpecialCases ==
  [key \in {Lower(v) : v \in SpecialCaseValues} |->
     CHOOSE v \in SpecialCaseValues : Lower(v) = key]

\* key in special_cases
InSpecial(key) == key \in DOMAIN SpecialCases

\* special_cases[key]
special_cases(key) == SpecialCases[key]

\* one whitespace-separated word: table casing, else word.capitalize()
CaseWord(word) == IF InSpecial(word) THEN special_cases(word) ELSE Capitalize(word)

\* one hyphen-separated part: table casing of part.lower(), else part.capitalize()
CaseHyphenPart(part) ==
  IF InSpecial(Lower(part)) THEN special_cases(Lower(part)) ELSE Capitalize(part)

\* one part after an '&'
CaseAmpPart(part) ==
  IF part # <<>> /\ part[1] # " "
    THEN <<"&">> \o Capitalize(part)
    ELSE LET words_after_amp == SplitWS(part)
             capped == [i \in 1..Len(words_after_amp) |->
                          IF i = 1 THEN Capitalize(words_after_amp[i])
                                   ELSE words_after_amp[i]]
         IN  <<"&">> \o Join(capped, <<" ">>)

HyphenStep(result) ==
  IF HasChar(result, "-")
    THEN LET parts == SplitOn(result, "-")
         IN  Join([i \in 1..Len(parts) |-> CaseHyphenPart(parts[i])], <<"-">>)
    ELSE result

AmpStep(result) ==
  IF HasChar(result, "&")
    THEN LET parts == SplitOn(result, "&")
         IN  Join([i \in 1..Len(parts) |->
                     IF i = 1 THEN parts[1] ELSE CaseAmpPart(parts[i])], <<>>)
    ELSE result

format_keyword_case(keyword) ==
  LET keyword_lower == Lower(keyword)
      words == SplitWS(keyword_lower)
      cased == [i \in 1..Len(words) |-> CaseWord(words[i])]
  IN  IF InSpecial(keyword_lower)
        THEN special_cases(keyword_lower)
        ELSE AmpStep(HyphenStep(Join(cased, <<" ">>)))


(***************************************************************************)
(* VideoTranscriber.generate_keywords                                      *)
(***************************************************************************)
\* raw_keywords[:5]
KeywordLimit == 5

\* variant: a lookup keyed by the name as stored, not by name.lower()
HasKeywordByName(table, k_lower) == \E i \in 1..Len(table) : table[i] = k_lower

\* existing_keyword_dict / existing_keywords_original_case: a dict keyed by
\* name.lower(); a later row with the same key overwrites an earlier one
HasKeyword(table, k_lower) == \E i \in 1..Len(table) : Lower(table[i]) = k_lower

KeywordId(table, k_lower) ==
  CHOOSE i \in 1..Len(table) :
    /\ Lower(table[i]) = k_lower
    /\ \A j \in (i+1)..Len(table) : Lower(table[j]) # k_lower

\* variant: every non-empty candidate is kept
raw_keywordsUncapped(result) ==
  LET pieces == SplitOn(Strip(result), ",")
      stripped == [i \in 1..Len(pieces) |-> Strip(pieces[i])]
  IN  SelectSeq(stripped, NonEmpty)

\* result.split(','), strip, drop the empty strings, keep the first five
raw_keywords(result) ==
  LET pieces == SplitOn(Strip(result), ",")
      stripped == [i \in 1..Len(pieces) |-> Strip(pieces[i])]
  IN  Take(SelectSeq(stripped, NonEmpty), KeywordLimit)

\* first loop: the casing of each candidate, against the rows read at the start
CandidateName(keyword, existing) ==
  IF HasKeyword(existing, Lower(keyword))
    THEN existing[KeywordId(existing, Lower(keyword))]
    ELSE format_keyword_case(keyword)

RECURSIVE KeywordObjects(_, _, _)
\* second loop: names to Keyword rows, a new row is added and flushed when the
\* lookup has no row for k.lower(), and entered in the lookup at once
KeywordObjects(names, table, objs) ==
  IF names = <<>>
    THEN [keyword_objects |-> objs, table |-> table]
    ELSE LET k == Head(names)
             k_lower == Lower(k)
         IN  IF HasKeyword(table, k_lower)
               THEN KeywordObjects(Tail(names), table, Append(objs, KeywordId(table, k_lower)))
               ELSE KeywordObjects(Tail(names), Append(table, k),
                                   Append(objs, Len(table) + 1))

\* generate_keywords for a reply `result` of the text generator, on the session's
\* keyword rows `existing`: the Keyword ids returned and the session's rows after
generate_keywords(result, existing) ==
  LET raw == raw_keywords(result)
      names == [i \in 1..Len(raw) |-> CandidateName(raw[i], existing)]
  IN  KeywordObjects(names, existing, <<>>)

(***************************************************************************)
(* VideoTranscriber.generate_title_and_summary, local fallback title       *)
(***************************************************************************)
\* words[:7]
TitleWords == 7

TitlePunctuation == {",", ".", "!", "?", ":", ";"}

FallbackTitle(transcript_text) ==
  LET words == SplitWS(transcript_text)
      title_words == IF Len(words) > TitleWords THEN Take(words, TitleWords) ELSE words
      joined == Join(title_words, <<" ">>)
      dotted == IF Len(words) > TitleWords THEN joined \o <<".", ".", ".">> ELSE joined
      stripped == RStripSet(dotted, TitlePunctuation)
  IN  IF stripped # <<>>
        THEN [i \in 1..Len(stripped) |-> IF i = 1 THEN UpperC(stripped[1]) ELSE stripped[i]]
        ELSE stripped

(***************************************************************************)
(* VideoTranscriber.generate_title_and_summary                             *)
(***************************************************************************)
\* summary_words[:30], 30 - word_count
SummaryWords == 30

\* result[:50]
TitleChars == 50

TitleMarker == <<"T","I","T","L","E",":">>

SummaryMarker == <<"S","U","M","M","A","R","Y",":">>

Ellipsis == <<".", ".", ".">>

RECURSIVE FindSub(_, _, _)
\* s.find(pat, i), 1-based; 0 when pat is not found
FindSub(s, pat, i) ==
  IF i + Len(pat) - 1 > Len(s) THEN 0
  ELSE IF SubSeq(s, i, i + Len(pat) - 1) = pat THEN i
  ELSE FindSub(s, pat, i + 1)

\* s.split(pat, 1)
SplitOnce(s, pat) ==
  LET i == FindSub(s, pat, 1)
  IN  IF i = 0 THEN <<s>>
      ELSE <<SubSeq(s, 1, i - 1), SubSeq(s, i + Len(pat), Len(s))>>

\* s.endswith(suffix)
EndsWith(s, suffix) ==
  Len(s) >= Len(suffix) /\ SubSeq(s, Len(s) - Len(suffix) + 1, Len(s)) = suffix

\* neither split(...)[1] raises IndexError
Parsable(result) ==
  Len(SplitOnce(result, TitleMarker)) > 1 /\ Len(SplitOnce(result, SummaryMarker)) > 1

\* the try block that extracts title_part and summary_part
ParsedReply(result) ==
  LET title_part == Strip(SplitOnce(SplitOnce(result, TitleMarker)[2], SummaryMarker)[1])
      summary_part == Strip(SplitOnce(result, SummaryMarker)[2])
      summary_words == SplitWS(summary_part)
  IN  [ title |-> title_part,
        summary |-> IF Len(summary_words) > SummaryWords
                      THEN Join(Take(summary_words, SummaryWords), <<" ">>) \o Ellipsis
                      ELSE summary_part ]

\* except (IndexError, AttributeError): the reply itself is title and summary
UnparsedReply(result) ==
  LET lines == IF result = <<>> THEN <<>> ELSE SplitOn(result, "\n")
  IN  IF Len(lines) > 1
        THEN [title |-> lines[1], summary |-> Join(Tail(lines), <<"\n">>)]
        ELSE [title |-> Take(result, TitleChars) \o Ellipsis, summary |-> result]

RECURSIVE SummaryLoop(_, _, _)
\* for sentence in sentences, with summary and word_count so far
SummaryLoop(sentences, summary, word_count) ==
  IF sentences = <<>> THEN summary
  ELSE LET sentence == Head(sentences)
           sentence_words == SplitWS(sentence)
       IN  IF word_count + Len(sentence_words) <= SummaryWords
             THEN LET joined == IF summary # <<>> /\ ~EndsWith(summary, <<".">>)
                                  THEN summary \o <<".", " ">> ELSE summary
                  IN  SummaryLoop(Tail(sentences), joined \o Strip(sentence),
                                  word_count + Len(sentence_words))
             ELSE LET remaining_words == SummaryWords - word_count
                  IN  IF remaining_words > 0
                        THEN summary \o <<" ">>
                               \o Join(Take(sentence_words, remaining_words), <<" ">>)
                               \o Ellipsis
                        ELSE summary

\* the simple summary of whole sentences within the 30 words
FallbackSummary(transcript_text) ==
  LET summary == SummaryLoop(SplitOn(transcript_text, "."), <<>>, 0)
  IN  IF summary # <<>> /\ ~EndsWith(summary, <<".">>) /\ ~EndsWith(summary, Ellipsis)
        THEN summary \o <<".">> ELSE summary

UntitledVideo == <<"U","n","t","i","t","l","e","d"," ","V","i","d","e","o">>

NoTranscriptAvailable ==
  <<"N","o"," ","t","r","a","n","s","c","r","i","p","t"," ",
    "a","v","a","i","l","a","b","l","e">>

\* client: "none" when self.client is None, "raises" when the call to the text
\* generator raises, "replies" when it returns content
generate_title_and_summary(transcript_text, client, content) ==
  IF transcript_text = <<>>
    THEN [title |-> UntitledVideo, summary |-> NoTranscriptAvailable]
  ELSE IF client = "replies"
    THEN LET result == Strip(content)
         IN  IF Parsable(result) THEN ParsedReply(result) ELSE UnparsedReply(result)
  ELSE [title |-> FallbackTitle(transcript_text),
        summary |-> FallbackSummary(transcript_text)]


(***************************************************************************)
(* transcribe_videos: format_filesize and format_duration                  *)
(***************************************************************************)
DigitChars == <<"0","1","2","3","4","5","6","7","8","9">>

RECURSIVE Str(_)
\* f"{n}" for an integer n >= 0
Str(n) == IF n < 10 THEN <<DigitChars[n + 1]>> ELSE Str(n \div 10) \o <<DigitChars[(n % 10) + 1]>>

\* f"{n:02d}"
Pad2(n) == IF n < 10 THEN <<"0">> \o Str(n) ELSE Str(n)

\* variant: the minutes are written without padding in the hour form too
format_durationUnpadded(tenths) ==
  LET hours == tenths \div 36000
      minutes == (tenths % 36000) \div 600
      secs == (tenths % 600) \div 10
  IN  IF hours > 0
        THEN Str(hours) \o <<":">> \o Str(minutes) \o <<":">> \o Pad2(secs)
        ELSE Str(minutes) \o <<":">> \o Pad2(secs)

\* format_duration(seconds), the float argument given in tenths of a second:
\* int(seconds // 3600), int((seconds % 3600) // 60), int(seconds % 60)
format_duration(tenths) ==
  LET hours == tenths \div 36000
      minutes == (tenths % 36000) \div 600
      secs == (tenths % 600) \div 10
  IN  IF hours > 0
        THEN Str(hours) \o <<":">> \o Pad2(minutes) \o <<":">> \o Pad2(secs)
        ELSE Str(minutes) \o <<":">> \o Pad2(secs)

\* 10 * r divided by w * w for r < w * w, without leaving 32 bits: the next
\* decimal digit of r / (w * w) and the remainder
Times10(r, w) ==
  LET h == r \div w
      l == r % w
      A == 10 * h + ((10 * l) \div w)
      B == (10 * l) % w
  IN  [digit |-> A \div w, rem |-> (A % w) * w + B]

\* f"{size_bytes / (w * w):.1f}" and ":.2f": the quotient is exact in a float
\* (w * w is a power of two), the format rounds it to `places` decimals, a tie
\* to the even digit
Fixed(size, w, places) ==
  LET d == w * w
      t1 == Times10(size % d, w)
      t2 == Times10(t1.rem, w)
      scaled == IF places = 1 THEN (size \div d) * 10 + t1.digit
                               ELSE (size \div d) * 100 + t1.digit * 10 + t2.digit
      rem == IF places = 1 THEN t1.rem ELSE t2.rem
      up == rem > d \div 2 \/ (rem = d \div 2 /\ scaled % 2 = 1)
      q == IF up THEN scaled + 1 ELSE scaled
  IN  IF places = 1
        THEN Str(q \div 10) \o <<".">> \o Str(q % 10)
        ELSE Str(q \div 100) \o <<".">> \o Pad2(q % 100)

\* variant: the thresholds are powers of 1000
format_filesize1000(n) ==
  IF n < 1000 THEN Str(n) \o <<" ", "B">>
  ELSE IF n < 1000 * 1000 THEN Fixed(n, 32, 1) \o <<" ", "K", "B">>
  ELSE IF n < 1000 * 1000 * 1000 THEN Fixed(n, 1024, 1) \o <<" ", "M", "B">>
  ELSE Fixed(n, 32768, 2) \o <<" ", "G", "B">>

\* format_filesize(size_bytes)
format_filesize(n) ==
  IF n < 1024 THEN Str(n) \o <<" ", "B">>
  ELSE IF n < 1024 * 1024 THEN Fixed(n, 32, 1) \o <<" ", "K", "B">>
  ELSE IF n < 1024 * 1024 * 1024 THEN Fixed(n, 1024, 1) \o <<" ", "M", "B">>
  ELSE Fixed(n, 32768, 2) \o <<" ", "G", "B">>


(***************************************************************************)
(* The catalog and the file system                                         *)
(***************************************************************************)
\* sub-directories of the input folder
Dirs == {"d1", "d2"}

\* file names as <<stem, extension>>, os.path.splitext(filename)
FileNames == {<<"a", ".mp4">>, <<"a", ".mkv">>}

\* the paths under the input folder, <<directory, filename>>: one file name is
\* found in both directories, the other in one
Paths == (Dirs \X FileNames) \ {<<"d2", <<"a", ".mkv">>>>}

\* os.path.basename(video_path)
basename(video_path) == video_path[2]

\* "video": a file ffprobe gives width and height for; "nodims": a file with a
\* video extension for which extract_metadata returns no width or height
FileKinds == {"video", "nodims"}

\* the kinds of file written at a path: one path also receives files without
\* usable dimensions
KindsAt(p) == IF p = <<"d1", <<"a", ".mp4">>>> THEN FileKinds ELSE {"video"}

None == "None"

\* the reply of the text generator to the keyword prompt
KeywordReply == <<"a","t","&","t">>

KeywordReplies == { KeywordReply }

VARIABLES
  folder,             \* os.path.exists(input_folder)
  fs,                 \* [Paths -> {"absent"} \cup FileKinds]: the files on disk
  videos,             \* committed videos rows, each with its transcriptions row; id = index
  keywords,           \* committed keywords rows (names); id = index
  pc,                 \* "idle", "batch" inside the loop of transcribe_videos, "init" before init_db
  video_ids,          \* the list transcribe_videos works through
  idx,                \* position of the loop in video_ids
  transcribed_count,  \* transcribe_videos' counter, its return value at the end
  new_video_ids,      \* what the last scan_input_folder returned, or Raised
  last,               \* what the last loop iteration of transcribe_videos did
  enriched,           \* ids whose enrichment was committed during the current call
  quiet,              \* scans completed since the file system or the catalog last changed otherwise
  candidates,         \* keyword candidates of the text generator's reply being assembled
  keyword_objects,    \* what the last generate_keywords call returned
  words,              \* words of the transcript being assembled
  title,              \* the fallback title of the transcript
  applied,            \* generate_keywords / the fallback title has been computed
  transcriptions,     \* the rows of the transcriptions table: [video_id]
  seconds,            \* format_duration's argument in tenths of a second, -1: none yet
  size_bytes,         \* format_filesize's argument, -1: none yet
  formatted,          \* what the formatter returned
  reply,              \* what the text generator did when asked for title and summary
  summary,            \* the summary generate_title_and_summary returned
  keyword             \* tokens of the keyword format_keyword_case is given

vars == <<folder, fs, videos, keywords, pc, video_ids, idx, transcribed_count,
          new_video_ids, last, enriched, quiet, candidates, keyword_objects, words, title,
          applied, transcriptions, seconds, size_bytes, formatted, reply, summary, keyword>>

fmtVars == <<seconds, size_bytes, formatted>>

textVars == <<reply, summary, keyword>>

catalogVars == <<folder, fs, videos, pc, video_ids, idx, transcribed_count,
                 new_video_ids, last, enriched, quiet>>

\* os.path.exists(path)
Exists(f, path) == f[path] # "absent"

\* the paths os.walk finds with a video extension
FoundFilepaths(f) == {p \in Paths : Exists(f, p)}

\* the orders os.walk can list the found files in: directory by directory
Walks(f) ==
  LET found == FoundFilepaths(f)
      n == Cardinality(found)
  IN  { w \in [1..n -> found] :
          /\ \A i, j \in 1..n : i # j => w[i] # w[j]
          /\ \A i, j, k \in 1..n : (i < j /\ j < k /\ w[i][1] = w[k][1]) => w[j][1] = w[i][1] }

(***************************************************************************)
(* VideoProcessor.extract_metadata                                         *)
(***************************************************************************)
\* the dicts extract_metadata can return for a file of the given kind: the
\* stream's figures for a video; for a file without usable dimensions the
\* zeros of "no video stream" and of a failed probe, the zeros of any other
\* exception, and a stream that lacks its width or its height; the file size
\* alone for a file that is no longer there
extract_metadata(kind) ==
  IF kind = "video"
    THEN { [filesize |-> 1, width |-> 1920, height |-> 1080] }
  ELSE IF kind = "absent"
    THEN { [filesize |-> 0] }
  ELSE { [filesize |-> 1, width |-> 0, height |-> 0],
         [filesize |-> 0, width |-> 0, height |-> 0],
         [filesize |-> 1, width |-> 0, height |-> 1080],
         [filesize |-> 1, width |-> 1920, height |-> 0] }

\* video_metadata.get(key): None for a key the dict lacks, false as 0 is
Get(video_metadata, key) ==
  IF key \in DOMAIN video_metadata THEN video_metadata[key] ELSE 0

\* variant: any metadata is taken for usable
ValidDimensionsAny(video_metadata) == TRUE

\* not (not width or not height)
ValidDimensions(video_metadata) ==
  Get(video_metadata, "width") # 0 /\ Get(video_metadata, "height") # 0

\* the file at video_path is skipped: whatever extract_metadata returns for a
\* file of its kind has no valid dimensions
Skipped(kind) == \A video_metadata \in extract_metadata(kind) : ~ValidDimensions(video_metadata)

\* what extract_metadata returns for a file that is not skipped
Metadata(kind) == CHOOSE video_metadata \in extract_metadata(kind) : TRUE

\* Video(...) with its empty Transcription(is_transcribed=False)
NewVideo(filename, video_path, video_metadata) ==
  [ filename |-> filename, filepath |-> video_path, status |-> "New",
    width |-> Get(video_metadata, "width"), height |-> Get(video_metadata, "height"),
    is_transcribed |-> FALSE, transcript_text |-> None, transcript_file |-> None,
    suggested_title |-> None, summary |-> None, keywords |-> <<>> ]

(***************************************************************************)
(* VideoProcessor.check_missing_videos                                     *)
(***************************************************************************)
\* variant: a row whose file is gone is left as it is
CheckVideoKeep(video, found, f) ==
  IF video.status = "Missing" /\ (video.filepath \in found \/ Exists(f, video.filepath))
    THEN [video EXCEPT !.status = IF ~video.is_transcribed THEN "New" ELSE "Transcribed"]
    ELSE video

\* the loop body for one row of the session
CheckVideo(video, found, f) ==
  IF video.status = "Missing"
    THEN IF video.filepath \in found \/ Exists(f, video.filepath)
           THEN [video EXCEPT !.status = IF ~video.is_transcribed THEN "New" ELSE "Transcribed"]
           ELSE video
    ELSE IF video.filepath \notin found /\ ~Exists(f, video.filepath)
           THEN [video EXCEPT !.status = "Missing"]
           ELSE video

\* the session's rows after the loop, and whether the session is committed
check_missing_videos(rows, found, f) ==
  LET all_videos == [i \in 1..Len(rows) |-> CheckVideo(rows[i], found, f)]
      missing_count == Cardinality({i \in 1..Len(rows) :
                                      rows[i].status # "Missing" /\ all_videos[i].status = "Missing"})
  IN  [ rows |-> all_videos,
        missing_count |-> missing_count,
        commit |-> missing_count > 0 \/ \E i \in 1..Len(rows) : all_videos[i].status = "Missing" ]

(***************************************************************************)
(* VideoProcessor.scan_input_folder                                        *)
(***************************************************************************)
\* variant: a lookup that finds no row, every found file is taken for a new one
ExistingVideoNone(rows, filename) == 0

\* session.query(Video).filter_by(filename=filename).first()
ExistingVideo(rows, filename) ==
  LET hit == {i \in 1..Len(rows) : rows[i].filename = filename}
  IN  IF hit = {} THEN 0 ELSE CHOOSE i \in hit : \A j \in hit : i <= j

\* variant: the Items are committed without a Transcription
NoTranscriptions(new_ids) == <<>>

\* new_video.transcription = Transcription(is_transcribed=False): the rows the
\* commits of the new Items add to the transcriptions table
NewTranscriptions(new_ids) == [k \in 1..Len(new_ids) |-> [video_id |-> new_ids[k]]]

\* variant: the row found again keeps its stored path
RestoreFoundInPlace(video, video_path) == [video EXCEPT !.status = "New"]

\* variant: the row found again is written anew from the file
RestoreFoundAnew(video, video_path) == NewVideo(video.filename, video_path, [filesize |-> 0])

\* a Missing row found again by filename in the discovery loop
RestoreFound(video, video_path) ==
  [video EXCEPT !.status = "New", !.filepath = video_path]

\* no list is returned: an exception reaches the caller (no row has id 0)
Raised == <<0>>

\* what can fail at one discovered file: the lookup query, the commit of a
\* restoration (both outside the try), the commit of a new Item with the
\* transaction closed by the failure ("commit"), or with the session left in
\* need of a rollback that the except branch does not issue ("flush")
FaultKinds == {"lookup", "restore", "commit", "flush"}

NoFault == [at |-> 0, kind |-> "none"]

\* a fault at the at-th file of the walk
Faults(video_files) == { [at |-> k, kind |-> c] : k \in 1..Len(video_files), c \in FaultKinds }

\* the fault has happened in the pass
Fired(r) == [r EXCEPT !.fired = TRUE]

RECURSIVE ScanFiles(_, _, _, _, _, _)
\* the discovery loop over video_files; `session` holds the rows as the session
\* sees them, `committed` the rows as last committed; a commit writes the whole
\* session; what is pending when the session closes is discarded (`session` in
\* the result: the rows as the session saw them when it closed); `fault` is
\* the failure due in this pass, fault.at = 1 at the file it strikes
ScanFiles(video_files, session, committed, new_ids, f, fault) ==
  IF video_files = <<>>
    THEN [videos |-> committed, new_video_ids |-> new_ids, session |-> session,
          fired |-> FALSE]
    ELSE LET video_path == Head(video_files)
             filename == basename(video_path)
             existing == ExistingVideo(session, filename)
             here(kind) == fault.at = 1 /\ fault.kind = kind
             later == [fault EXCEPT !.at = IF @ > 1 THEN @ - 1 ELSE 0]
             abort == [videos |-> committed, new_video_ids |-> Raised, session |-> session,
                       fired |-> TRUE]
         IN  IF here("lookup") THEN abort
             ELSE IF existing # 0
               THEN IF session[existing].status = "Missing"
                      THEN IF here("restore") THEN abort
                           ELSE LET s2 == [session EXCEPT
                                        ![existing] = RestoreFound(session[existing], video_path)]
                                IN  ScanFiles(Tail(video_files), s2, s2, new_ids, f, later)
                      ELSE ScanFiles(Tail(video_files), session, committed, new_ids, f, later)
               ELSE IF Skipped(f[video_path])
                      THEN ScanFiles(Tail(video_files), session, committed, new_ids, f, later)
               ELSE IF here("commit")
                      THEN Fired(ScanFiles(Tail(video_files), committed, committed, new_ids, f,
                                           later))
               ELSE IF here("flush")
                      THEN Fired(ScanFiles(Tail(video_files), committed, committed, new_ids, f,
                                           [at |-> 1, kind |-> "lookup"]))
               ELSE LET s2 == Append(session, NewVideo(filename, video_path, Metadata(f[video_path])))
                    IN  ScanFiles(Tail(video_files), s2, s2, Append(new_ids, Len(s2)), f, later)

\* scan_input_folder on the committed rows, with os.walk listing video_files
\* and `fault` due
ScanPass(rows, video_files, f, fault) ==
  LET found_filepaths == {video_files[i] : i \in 1..Len(video_files)}
      checked == check_missing_videos(rows, found_filepaths, f)
  IN  ScanFiles(video_files, checked.rows, IF checked.commit THEN checked.rows ELSE rows,
                <<>>, f, fault)

\* variant: the pass returns the identity of every Item of the catalog
scan_input_folderAllIds(rows, video_files, f) ==
  LET found_filepaths == {video_files[i] : i \in 1..Len(video_files)}
      checked == check_missing_videos(rows, found_filepaths, f)
      r == ScanFiles(video_files, checked.rows,
                     IF checked.commit THEN checked.rows ELSE rows, <<>>, f, NoFault)
  IN  [videos |-> r.videos, new_video_ids |-> [i \in 1..Len(r.videos) |-> i]]

\* scan_input_folder on the committed rows, with os.walk listing video_files
scan_input_folder(rows, video_files, f) == ScanPass(rows, video_files, f, NoFault)


(***************************************************************************)
(* VideoProcessor.get_untranscribed_videos                                 *)
(***************************************************************************)
\* check_missing_videos(session) walks the input folder itself; the ids are read
\* from the session's rows, the commit is check_missing_videos' own
get_untranscribed_videos(rows, f) ==
  LET checked == check_missing_videos(rows, FoundFilepaths(f), f)
  IN  [ videos |-> IF checked.commit THEN checked.rows ELSE rows,
        ids |-> SelectSeq([i \in 1..Len(rows) |-> i],
                          LAMBDA i : ~checked.rows[i].is_transcribed
                                     /\ checked.rows[i].status # "Missing") ]

(***************************************************************************)
(* VideoTranscriber.transcribe_videos                                      *)
(***************************************************************************)
\* variant: the default selection takes the rows with status New alone
DefaultVideoIdsNew(rows) ==
  SelectSeq([i \in 1..Len(rows) |-> i],
            LAMBDA i : ~rows[i].is_transcribed /\ rows[i].status = "New")

\* video_ids is None: the rows with is_transcribed == False
DefaultVideoIds(rows) ==
  SelectSeq([i \in 1..Len(rows) |-> i], LAMBDA i : ~rows[i].is_transcribed)

\* os.path.join(transcripts_folder, splitext(filename)[0] + ".md")
TranscriptPath(filename) == <<filename[1], ".md">>

\* variant: the except branch only logs
ErrorStatusLogged(rows, video_id, status_ok) == rows

\* variant: the except branch also takes the flag back
ErrorStatusReset(rows, video_id, status_ok) ==
  [rows EXCEPT ![video_id].status = "Error Transcribing", ![video_id].is_transcribed = FALSE]

\* the except branch of the loop: a fresh session sets "Error Transcribing"
ErrorStatus(rows, video_id, status_ok) ==
  IF status_ok THEN [rows EXCEPT ![video_id].status = "Error Transcribing"] ELSE rows

\* the combined commit: every field, the keywords and the status
FullUpdate(video, keyword_ids) ==
  [video EXCEPT !.is_transcribed = TRUE, !.transcript_text = "text",
                !.transcript_file = TranscriptPath(video.filename),
                !.suggested_title = "title", !.summary = "summary",
                !.keywords = keyword_ids, !.status = "Transcribed"]

\* variant: the commit after the rollback carries the flag alone
FallbackFlagOnly(video) == [video EXCEPT !.is_transcribed = TRUE]

\* after session.rollback(): the commit without summary and keywords
FallbackUpdate(video) ==
  [video EXCEPT !.is_transcribed = TRUE, !.transcript_text = "text",
                !.transcript_file = TranscriptPath(video.filename),
                !.suggested_title = "title"]

\* variant: the Keyword rows flushed before the failed commit stay
rollbackKeepsFlushed(kw, table) == table

\* session.rollback() after the failed combined commit: the Keyword rows that
\* generate_keywords added and flushed in this session are discarded
rollback(kw, table) == kw

\* one iteration of the loop for video_id. engine_ok: model.transcribe returns;
\* result: the text generator's keyword reply; commit_ok, retry_ok, status_ok:
\* the first commit of the iteration (of status Missing when the file is
\* absent, the combined commit otherwise), the commit after rollback and the
\* commit of the error status succeed
ProcessVideo(video_id, rows, kw, f, engine_ok, result, commit_ok, retry_ok, status_ok) ==
  IF video_id \notin 1..Len(rows)
    THEN [videos |-> rows, keywords |-> kw, result |-> "unknown", fault |-> "none"]
  ELSE IF ~Exists(f, rows[video_id].filepath)
    THEN IF commit_ok
           THEN [videos |-> [rows EXCEPT ![video_id].status = "Missing"], keywords |-> kw,
                 result |-> "missing", fault |-> "none"]
           ELSE [videos |-> ErrorStatus(rows, video_id, status_ok), keywords |-> kw,
                 result |-> IF status_ok THEN "error" ELSE "error_unrecorded",
                 fault |-> "missing_commit"]
  ELSE IF ~engine_ok
    THEN [videos |-> ErrorStatus(rows, video_id, status_ok), keywords |-> kw,
          result |-> IF status_ok THEN "error" ELSE "error_unrecorded", fault |-> "engine"]
  ELSE IF commit_ok
    THEN LET gen == generate_keywords(result, kw)
         IN  [videos |-> [rows EXCEPT ![video_id] = FullUpdate(rows[video_id], gen.keyword_objects)],
              keywords |-> gen.table, result |-> "done", fault |-> "none"]
  ELSE IF retry_ok
    THEN [videos |-> [rows EXCEPT ![video_id] = FallbackUpdate(rows[video_id])],
          keywords |-> rollback(kw, generate_keywords(result, kw).table),
          result |-> "fallback", fault |-> "commit"]
  ELSE [videos |-> ErrorStatus(rows, video_id, status_ok),
        keywords |-> rollback(kw, generate_keywords(result, kw).table),
        result |-> IF status_ok THEN "error" ELSE "error_unrecorded", fault |-> "retry"]

\* what the collaborators and the database can do in one iteration: the text
\* generator's reply matters only when the combined commit succeeds, the
\* commit of the error status only when the except branch is taken
Outcomes ==
  LET O(e, r, c, t, u) == [engine_ok |-> e, result |-> r, commit_ok |-> c,
                           retry_ok |-> t, status_ok |-> u]
  IN  { O(TRUE, r, TRUE, TRUE, TRUE) : r \in KeywordReplies }
        \cup { O(FALSE, KeywordReply, TRUE, TRUE, u) : u \in BOOLEAN }
        \cup { O(TRUE, KeywordReply, FALSE, TRUE, TRUE) }
        \cup { O(TRUE, KeywordReply, FALSE, FALSE, u) : u \in BOOLEAN }

\* variant: the count also covers the ids whose file was absent
CountedWithMissing(result) == result \in {"done", "fallback", "missing"}

\* transcribed_count += 1 is reached: no continue and no exception before it
Counted(result) == result \in {"done", "fallback"}

NoStep == [result |-> "none", fault |-> "none"]

\* the lists a caller passes: main's single-file mode passes [video_id]; the id
\* Len(rows) + 1 is unknown to the catalog
IdLists(rows) == {<<>>} \cup { <<i>> : i \in 1..(Len(rows) + 1) }

\* the text generator has not been asked
NoReply == [client |-> "unasked", content |-> <<>>]

(***************************************************************************)
(* Initial state and actions                                               *)
(***************************************************************************)
Init ==
  /\ folder = TRUE
  /\ fs = [p \in Paths |-> "absent"]
  /\ videos = <<>>
  /\ keywords = <<>>
  /\ pc = "idle"
  /\ video_ids = <<>>
  /\ idx = 1
  /\ transcribed_count = 0
  /\ new_video_ids = <<>>
  /\ last = NoStep
  /\ enriched = {}
  /\ quiet = 0
  /\ candidates = <<>>
  /\ keyword_objects = <<>>
  /\ words = <<>>
  /\ title = <<>>
  /\ applied = FALSE
  /\ transcriptions = <<>>
  /\ seconds = -1
  /\ size_bytes = -1
  /\ formatted = <<>>
  /\ reply = NoReply
  /\ summary = <<>>
  /\ keyword = <<>>

pureVars == <<candidates, keyword_objects, words, title, applied>>

\* the results of the last call are kept until the next call or the next change
\* of the file system
ForgetBatch ==
  /\ video_ids' = <<>>
  /\ idx' = 1
  /\ transcribed_count' = 0
  /\ last' = NoStep
  /\ enriched' = {}
  /\ pc' = "idle"

Forget ==
  /\ ForgetBatch
  /\ new_video_ids' = <<>>
  /\ quiet' = 0

\* a file with a video extension is written under the input folder
PutFile ==
  /\ pc = "idle"
  /\ folder
  /\ \E p \in Paths : \E kind \in KindsAt(p) :
       /\ fs[p] # kind
       /\ fs' = [fs EXCEPT ![p] = kind]
  /\ Forget
  /\ UNCHANGED <<textVars, folder, videos, keywords, pureVars, transcriptions, fmtVars>>

\* a file is deleted or moved away
RemoveFile ==
  /\ pc = "idle"
  /\ \E p \in Paths :
       /\ fs[p] # "absent"
       /\ fs' = [fs EXCEPT ![p] = "absent"]
  /\ Forget
  /\ UNCHANGED <<textVars, folder, videos, keywords, pureVars, transcriptions, fmtVars>>

\* the input folder is removed with everything in it
RemoveFolder ==
  /\ pc = "idle"
  /\ folder
  /\ folder' = FALSE
  /\ fs' = [p \in Paths |-> "absent"]
  /\ Forget
  /\ UNCHANGED <<textVars, videos, keywords, pureVars, transcriptions, fmtVars>>

CreateFolder ==
  /\ pc = "idle"
  /\ ~folder
  /\ folder' = TRUE
  /\ Forget
  /\ UNCHANGED <<textVars, fs, videos, keywords, pureVars, transcriptions, fmtVars>>

\* scan_input_folder, the input folder exists
ScanInputFolder ==
  /\ pc = "idle"
  /\ folder
  /\ \E video_files \in Walks(fs) :
       LET r == scan_input_folder(videos, video_files, fs)
       IN  /\ videos' = r.videos
           /\ new_video_ids' = r.new_video_ids
           /\ transcriptions' = transcriptions \o NewTranscriptions(r.new_video_ids)
  /\ quiet' = IF quiet < 2 THEN quiet + 1 ELSE quiet
  /\ ForgetBatch
  /\ UNCHANGED <<textVars, folder, fs, keywords, pureVars, fmtVars>>

\* scan_input_folder with one failure at a discovered file
ScanFault ==
  /\ pc = "idle"
  /\ folder
  /\ \E video_files \in Walks(fs) : \E fault \in Faults(video_files) :
       LET r == ScanPass(videos, video_files, fs, fault)
           created == [k \in 1..(Len(r.videos) - Len(videos)) |-> Len(videos) + k]
       IN  /\ r.fired
           /\ videos' = r.videos
           /\ new_video_ids' = r.new_video_ids
           /\ transcriptions' = transcriptions \o NewTranscriptions(created)
  /\ quiet' = 0
  /\ ForgetBatch
  /\ UNCHANGED <<textVars, folder, fs, keywords, pureVars, fmtVars>>

\* variant: the rows are checked against the empty found-set before the raise
RaiseAfterCheck(rows) ==
  [ videos |-> check_missing_videos(rows, {}, [p \in Paths |-> "absent"]).rows,
    new_video_ids |-> Raised ]

\* os.path.exists(self.input_folder) is false: the raise comes before any
\* session is opened
RaiseNotFound(rows) == [videos |-> rows, new_video_ids |-> Raised]

\* scan_input_folder raises FileNotFoundError
ScanNoFolder ==
  /\ pc = "idle"
  /\ ~folder
  /\ LET r == RaiseNotFound(videos)
     IN  /\ videos' = r.videos
         /\ new_video_ids' = r.new_video_ids
  /\ quiet' = 0
  /\ ForgetBatch
  /\ UNCHANGED <<textVars, folder, fs, keywords, pureVars, transcriptions, fmtVars>>

\* transcribe_videos up to the loop, for the list video_ids
StartBatch(ids) ==
  /\ video_ids' = ids
  /\ idx' = 1
  /\ transcribed_count' = 0
  /\ last' = NoStep
  /\ enriched' = {}
  /\ pc' = IF ids = <<>> THEN "idle" ELSE "batch"
  /\ new_video_ids' = <<>>
  /\ quiet' = 0

\* transcribe_videos(video_ids=None)
TranscribeDefault ==
  /\ pc = "idle"
  /\ StartBatch(DefaultVideoIds(videos))
  /\ UNCHANGED <<textVars, folder, fs, videos, keywords, pureVars, transcriptions, fmtVars>>

\* main: transcribe_videos(video_ids=get_untranscribed_videos())
TranscribeUntranscribed ==
  /\ pc = "idle"
  /\ LET r == get_untranscribed_videos(videos, fs)
     IN  /\ videos' = r.videos
         /\ StartBatch(r.ids)
  /\ UNCHANGED <<textVars, folder, fs, keywords, pureVars, transcriptions, fmtVars>>

\* transcribe_videos(video_ids=[...])
TranscribeList ==
  /\ pc = "idle"
  /\ \E ids \in IdLists(videos) : StartBatch(ids)
  /\ UNCHANGED <<textVars, folder, fs, videos, keywords, pureVars, transcriptions, fmtVars>>

\* variant: a failure of the update of the status reaches the caller and ends
\* the batch
ProcessItemAbort ==
  /\ pc = "batch"
  /\ \E o \in Outcomes :
       LET r == ProcessVideo(video_ids[idx], videos, keywords, fs, o.engine_ok,
                             o.result, o.commit_ok, o.retry_ok, o.status_ok)
       IN  /\ videos' = r.videos
           /\ keywords' = r.keywords
           /\ transcribed_count' = IF Counted(r.result) THEN transcribed_count + 1
                                                           ELSE transcribed_count
           /\ enriched' = IF r.result \in {"done", "fallback"}
                            THEN enriched \cup {video_ids[idx]} ELSE enriched
           /\ last' = [result |-> r.result, fault |-> r.fault]
           /\ pc' = IF idx = Len(video_ids) \/ r.result = "error_unrecorded"
                      THEN "idle" ELSE "batch"
  /\ idx' = idx + 1
  /\ quiet' = 0
  /\ UNCHANGED <<textVars, folder, fs, video_ids, new_video_ids, pureVars, transcriptions, fmtVars>>

\* one iteration of the loop; after the last one transcribe_videos returns
ProcessItem ==
  /\ pc = "batch"
  /\ \E o \in Outcomes :
       LET r == ProcessVideo(video_ids[idx], videos, keywords, fs, o.engine_ok,
                             o.result, o.commit_ok, o.retry_ok, o.status_ok)
       IN  /\ videos' = r.videos
           /\ keywords' = r.keywords
           /\ transcribed_count' = IF Counted(r.result) THEN transcribed_count + 1
                                                           ELSE transcribed_count
           /\ enriched' = IF r.result \in {"done", "fallback"}
                            THEN enriched \cup {video_ids[idx]} ELSE enriched
           /\ last' = [result |-> r.result, fault |-> r.fault]
  /\ idx' = idx + 1
  /\ pc' = IF idx = Len(video_ids) THEN "idle" ELSE "batch"
  /\ quiet' = 0
  /\ UNCHANGED <<textVars, folder, fs, video_ids, new_video_ids, pureVars, transcriptions, fmtVars>>

Next ==
  \/ PutFile
  \/ RemoveFile
  \/ RemoveFolder
  \/ CreateFolder
  \/ ScanInputFolder
  \/ ScanFault
  \/ ScanNoFolder
  \/ TranscribeDefault
  \/ TranscribeUntranscribed
  \/ TranscribeList
  \/ ProcessItem

Spec == Init /\ [][Next]_vars

\* the loop of transcribe_videos is sequential code: an iteration that can
\* run does run
SpecFair == Spec /\ WF_vars(ProcessItem)

(***************************************************************************)
(* init_db on a database left by a version without the status column       *)
(***************************************************************************)
\* the status of a row of a videos table that has no status column
NoColumn == "NoColumn"

\* a row as the earlier version left it: no status, no summary, no keywords
LegacyVideo(video_path, done) ==
  [ NewVideo(basename(video_path), video_path, Metadata("video")) EXCEPT
      !.status = NoColumn, !.is_transcribed = done,
      !.transcript_text = IF done THEN "text" ELSE None,
      !.transcript_file = IF done THEN TranscriptPath(basename(video_path)) ELSE None,
      !.suggested_title = IF done THEN "title" ELSE None ]

\* the catalogs init_db is started on: none or one row, transcribed or not
LegacyCatalogs ==
  {<<>>} \cup { <<LegacyVideo(p, done)>> : p \in Paths, done \in BOOLEAN }

\* variant: the migration marks every existing row Transcribed
migrate_dbAllTranscribed(rows) == [i \in 1..Len(rows) |-> [rows[i] EXCEPT !.status = "Transcribed"]]

\* 'status' not in video_columns: ADD COLUMN status DEFAULT 'New', then
\* UPDATE ... SET status = 'Transcribed' for the rows with is_transcribed = 1
migrate_db(rows) ==
  [i \in 1..Len(rows) |->
     IF rows[i].status # NoColumn THEN rows[i]
     ELSE [rows[i] EXCEPT !.status = IF rows[i].is_transcribed THEN "Transcribed" ELSE "New"]]

InitLegacy ==
  /\ folder = TRUE
  /\ fs = [p \in Paths |-> "absent"]
  /\ videos \in LegacyCatalogs
  /\ keywords = <<>>
  /\ pc = "init"
  /\ video_ids = <<>>
  /\ idx = 1
  /\ transcribed_count = 0
  /\ new_video_ids = <<>>
  /\ last = NoStep
  /\ enriched = {}
  /\ quiet = 0
  /\ candidates = <<>>
  /\ keyword_objects = <<>>
  /\ words = <<>>
  /\ title = <<>>
  /\ applied = FALSE
  /\ transcriptions = NewTranscriptions([i \in 1..Len(videos) |-> i])
  /\ seconds = -1
  /\ size_bytes = -1
  /\ formatted = <<>>
  /\ reply = NoReply
  /\ summary = <<>>
  /\ keyword = <<>>

\* init_db(db_path) on the existing database
MigrateDb ==
  /\ pc = "init"
  /\ videos' = migrate_db(videos)
  /\ pc' = "idle"
  /\ UNCHANGED <<textVars, folder, fs, keywords, video_ids, idx, transcribed_count,
                 new_video_ids, last, enriched, quiet, pureVars, transcriptions, fmtVars>>

NextMigrate == MigrateDb \/ Next

SpecMigrate == InitLegacy /\ [][NextMigrate]_vars

(***************************************************************************)
(* generate_keywords on assembled replies                                  *)
(***************************************************************************)
\* the most candidates a reply of the text generator holds
MaxCandidates == 6

\* the candidates a reply is assembled from: "AT&T", "at&t",
\* " machine learning" and the empty candidate
CandidatePool ==
  { <<"A","T","&","T">>, <<"a","t","&","t">>,
    <<" ","m","a","c","h","i","n","e"," ","l","e","a","r","n","i","n","g">>, <<>> }

\* the reply: the candidates joined by commas
Reply(cands) == Join(cands, <<",">>)

AddCandidate ==
  /\ ~applied
  /\ Len(candidates) < MaxCandidates
  /\ \E c \in CandidatePool : candidates' = Append(candidates, c)
  /\ UNCHANGED <<textVars, fmtVars, transcriptions, catalogVars, keywords, keyword_objects, words, title, applied>>

\* generate_keywords on the reply, and the commit of the caller's session
GenerateKeywords ==
  /\ ~applied
  /\ applied' = TRUE
  /\ LET r == generate_keywords(Reply(candidates), keywords)
     IN  /\ keyword_objects' = r.keyword_objects
         /\ keywords' = r.table
  /\ UNCHANGED <<textVars, fmtVars, transcriptions, catalogVars, candidates, words, title>>

\* the next video's reply
NextReply ==
  /\ applied
  /\ applied' = FALSE
  /\ candidates' = <<>>
  /\ keyword_objects' = <<>>
  /\ UNCHANGED <<textVars, fmtVars, transcriptions, catalogVars, keywords, words, title>>

NextKw == AddCandidate \/ GenerateKeywords \/ NextReply

SpecKw == Init /\ [][NextKw]_vars

(***************************************************************************)
(* the fallback title on assembled transcripts                             *)
(***************************************************************************)
\* the most words a transcript holds
MaxWords == 8

\* the words a transcript is assembled from: "the", "Fox," and "dog."
WordPool == { <<"t","h","e">>, <<"F","o","x",",">>, <<"d","o","g",".">> }

AddWord ==
  /\ ~applied
  /\ Len(words) < MaxWords
  /\ \E w \in WordPool : words' = Append(words, w)
  /\ UNCHANGED <<textVars, fmtVars, transcriptions, catalogVars, keywords, candidates, keyword_objects, title, applied>>

\* generate_title_and_summary without a text generator
GenerateTitle ==
  /\ ~applied
  /\ applied' = TRUE
  /\ title' = FallbackTitle(Join(words, <<" ">>))
  /\ UNCHANGED <<textVars, fmtVars, transcriptions, catalogVars, keywords, candidates, keyword_objects, words>>

NextTitle == AddWord \/ GenerateTitle

SpecTitle == Init /\ [][NextTitle]_vars

(***************************************************************************)
(* generate_title_and_summary on assembled transcripts and replies         *)
(***************************************************************************)
\* the most words a transcript or the body of a reply holds
MaxTextWords == 33

\* the numbers of words a sentence of the transcript holds
SentenceLengths == {2, 13, 31}

\* the numbers of words the body of a reply holds
ReplyLengths == {1, SummaryWords, SummaryWords + 1, MaxTextWords}

\* n times the word w, separated by blanks
Repeat(w, n) == Join([i \in 1..n |-> w], <<" ">>)

\* the replies of the text generator: with both markers, with none on one line
\* and on two lines, and with the first marker alone
Replies ==
  UNION { { TitleMarker \o <<" ", "t", "\n">> \o SummaryMarker \o <<" ">> \o Repeat(<<"r">>, n),
            Repeat(<<"r">>, n),
            <<"r", "\n">> \o Repeat(<<"r">>, n),
            TitleMarker \o <<" ">> \o Repeat(<<"r">>, n) } : n \in ReplyLengths }

\* what the text generator can do when asked
ReplyPool ==
  { [client |-> "none", content |-> <<>>], [client |-> "raises", content |-> <<>>] }
    \cup { [client |-> "replies", content |-> c] : c \in Replies }

\* the transcript grows by one sentence of n words
AddSentence ==
  /\ ~applied
  /\ \E n \in SentenceLengths :
       /\ Len(words) + n <= MaxTextWords
       /\ words' = words \o [i \in 1..n |-> IF i = n THEN <<"w", ".">> ELSE <<"w">>]
  /\ UNCHANGED <<fmtVars, transcriptions, catalogVars, keywords, candidates, keyword_objects,
                 title, applied, textVars>>

\* title, summary = self.generate_title_and_summary(transcript_text, video.filename)
GenerateTitleAndSummary ==
  /\ ~applied
  /\ words # <<>>
  /\ applied' = TRUE
  /\ \E r \in ReplyPool :
       LET generated == generate_title_and_summary(Join(words, <<" ">>), r.client, r.content)
       IN  /\ reply' = r
           /\ title' = generated.title
           /\ summary' = generated.summary
  /\ UNCHANGED <<fmtVars, transcriptions, catalogVars, keywords, candidates, keyword_objects,
                 words, keyword>>

NextSummary == AddSentence \/ GenerateTitleAndSummary

SpecSummary == Init /\ [][NextSummary]_vars

(***************************************************************************)
(* format_keyword_case on assembled keywords                               *)
(***************************************************************************)
\* the most tokens a keyword holds
MaxTokens == 4

\* the tokens a keyword is assembled from: "ibm", "IBM", "news", "cloud-based",
\* "r&d", "at&t" and a lone "&"
TokenPool ==
  { <<"i","b","m">>, <<"I","B","M">>, <<"n","e","w","s">>,
    <<"c","l","o","u","d","-","b","a","s","e","d">>, <<"r","&","d">>,
    <<"a","t","&","t">>, <<"&">> }

AddToken ==
  /\ ~applied
  /\ Len(keyword) < MaxTokens
  /\ \E t \in TokenPool : keyword' = Append(keyword, t)
  /\ UNCHANGED <<fmtVars, transcriptions, catalogVars, keywords, pureVars, reply, summary>>

\* formatted_keyword = self.format_keyword_case(keyword)
FormatKeywordCase ==
  /\ ~applied
  /\ keyword # <<>>
  /\ applied' = TRUE
  /\ formatted' = format_keyword_case(Join(keyword, <<" ">>))
  /\ UNCHANGED <<textVars, transcriptions, catalogVars, keywords, candidates, keyword_objects,
                 words, title, seconds, size_bytes>>

NextCase == AddToken \/ FormatKeywordCase

SpecCase == Init /\ [][NextCase]_vars


(***************************************************************************)
(* the formatters on chosen arguments                                      *)
(***************************************************************************)
\* the longest duration formatted, in seconds
MaxSeconds == 7300

\* durations as ffprobe reports them: whole seconds and halves
DurationInputs == { 10 * n + d : n \in 0..MaxSeconds, d \in {0, 5} }

PickSeconds ==
  /\ seconds = -1
  /\ \E t \in DurationInputs : seconds' = t
  /\ UNCHANGED <<textVars, transcriptions, catalogVars, keywords, pureVars, size_bytes, formatted>>

FormatDuration ==
  /\ seconds >= 0
  /\ ~applied
  /\ applied' = TRUE
  /\ formatted' = format_duration(seconds)
  /\ UNCHANGED <<textVars, transcriptions, catalogVars, keywords, candidates, keyword_objects, words,
                 title, seconds, size_bytes>>

NextDuration == PickSeconds \/ FormatDuration

SpecDuration == Init /\ [][NextDuration]_vars

\* file sizes: gibibytes, mebibytes, kibibytes and bytes that are added up
SizeParts ==
  [ gb : {0, 1}, mb : {0, 1, 5, 512, 1023}, kb : {0, 1, 2, 512, 1023},
    b : {0, 1, 256, 500, 512, 1023} ]

SizeInputs ==
  { x.gb * 1024 * 1024 * 1024 + x.mb * 1024 * 1024 + x.kb * 1024 + x.b : x \in SizeParts }

PickSize ==
  /\ size_bytes = -1
  /\ \E n \in SizeInputs : size_bytes' = n
  /\ UNCHANGED <<textVars, transcriptions, catalogVars, keywords, pureVars, seconds, formatted>>

FormatFilesize ==
  /\ size_bytes >= 0
  /\ ~applied
  /\ applied' = TRUE
  /\ formatted' = format_filesize(size_bytes)
  /\ UNCHANGED <<textVars, transcriptions, catalogVars, keywords, candidates, keyword_objects, words,
                 title, seconds, size_bytes>>

NextFilesize == PickSize \/ FormatFilesize

SpecFilesize == Init /\ [][NextFilesize]_vars


(***************************************************************************)
(* Properties                                                              *)
(***************************************************************************)
Ids == 1..Len(videos)

\* C1: whenever a Reconciler or Orchestrator operation has returned, each Item
\* of the committed catalog has status Transcribed exactly when its Enrichment
\* has is_transcribed true.
C1_StatusIffTranscribed ==
  pc = "idle" =>
    \A i \in Ids : (videos[i].status = "Transcribed") <=> videos[i].is_transcribed

\* a file with the Item's filename lies under the input folder
Reintroduced(video) == \E p \in FoundFilepaths(fs) : basename(p) = video.filename

\* C2: an Item that is Missing and whose filename is found again ends the
\* reconciliation pass with status New when is_transcribed is false and
\* Transcribed when it is true, whatever else the pass does.
C2_ReintroducedRestored ==
  [][ScanInputFolder =>
       \A i \in Ids :
         (videos[i].status = "Missing" /\ Reintroduced(videos[i]))
           => videos'[i].status = IF videos[i].is_transcribed THEN "Transcribed" ELSE "New"]_vars

\* C3: a reconciliation pass that follows a pass with no change of the file
\* system or the catalog in between leaves the catalog unchanged and returns
\* no new identity.
C3_ScanIdempotent ==
  [][(quiet >= 1 /\ ScanInputFolder) => (videos' = videos /\ new_video_ids' = <<>>)]_vars

\* C3 witness: a second pass has run over a file without dimensions and two
\* files sharing one filename, with an Item in the catalog
C3_Witness ==
  /\ quiet = 2
  /\ fs[<<"d1", <<"a", ".mp4">>>>] = "nodims"
  /\ fs[<<"d2", <<"a", ".mp4">>>>] = "video"
  /\ Len(videos) >= 1

\* the loop iteration for X = video_ids[idx] failed in the transcription engine
EngineFailureStep == ProcessItem /\ last'.fault = "engine"

\* the iteration changes no row but X's, X's row only in its status, and the
\* loop moves on to the next id
IsolatedStep ==
  /\ Len(videos') = Len(videos)
  /\ \A i \in Ids : i # video_ids[idx] => videos'[i] = videos[i]
  /\ \A i \in Ids : videos'[i] = [videos[i] EXCEPT !.status = videos'[i].status]
  /\ keywords' = keywords
  /\ video_ids' = video_ids
  /\ idx' = idx + 1
  /\ (idx < Len(video_ids) => pc' = "batch")
  /\ transcribed_count' = transcribed_count

\* C4 as stated: an engine failure on X leaves the earlier items as committed,
\* X with status ErrorTranscribing, and the batch goes on.
C4_EngineFailureSetsError ==
  [][EngineFailureStep =>
       (IsolatedStep /\ videos'[video_ids[idx]].status = "Error Transcribing")]_vars

\* C4 amended: X ends with status ErrorTranscribing when the update of the
\* status commits, and keeps its committed row when that update fails too.
C4_EngineFailureIsolated ==
  [][EngineFailureStep =>
       /\ IsolatedStep
       /\ last'.result = "error" => videos'[video_ids[idx]].status = "Error Transcribing"
       /\ last'.result # "error" => videos'[video_ids[idx]] = videos[video_ids[idx]]]_vars

\* C4 witness: in a batch of two the first was enriched and is Transcribed, the
\* second failed in the engine and is ErrorTranscribing
C4_Witness ==
  /\ Len(video_ids) = 2
  /\ idx = 3
  /\ last = [result |-> "error", fault |-> "engine"]
  /\ enriched = {video_ids[1]}
  /\ videos[video_ids[1]].status = "Transcribed"
  /\ videos[video_ids[2]].status = "Error Transcribing"

\* C5: transcribe_videos without a list selects exactly the Items with
\* is_transcribed false and status other than Missing.
C5_DefaultSkipsMissing ==
  [][TranscribeDefault =>
       video_ids' = SelectSeq([i \in Ids |-> i],
                              LAMBDA i : ~videos[i].is_transcribed
                                         /\ videos[i].status # "Missing")]_vars

\* C6: the returned count is the number of listed ids whose enrichment was
\* committed during the call; those are transcribed, the others are not
\* counted, and the count never exceeds the length of the list.
C6_CountIsEnriched ==
  /\ transcribed_count = Cardinality(enriched)
  /\ transcribed_count <= idx - 1
  /\ idx - 1 <= Len(video_ids)
  /\ \A id \in enriched :
       /\ \E k \in 1..(idx - 1) : video_ids[k] = id
       /\ videos[id].is_transcribed
  /\ (idx > 1 /\ last.result \in {"unknown", "missing", "error", "error_unrecorded"})
       => video_ids[idx - 1] \notin enriched

\* C6 witness: a call over two ids has returned 1: one id was enriched, the
\* other one's file was absent
C6_Witness ==
  /\ pc = "idle"
  /\ Len(video_ids) = 2
  /\ idx = 3
  /\ transcribed_count = 1
  /\ last.result = "missing"

\* no Keyword id occurs twice in the list
NoIdTwice(objs) == \A i, j \in 1..Len(objs) : objs[i] = objs[j] => i = j

\* C7: the list generate_keywords returns holds no Keyword identity twice.
C7_NoIdentityTwice == applied => NoIdTwice(keyword_objects)

\* the candidates of the reply after trimming, the empty ones dropped
Eligible == SelectSeq([i \in 1..Len(candidates) |-> Strip(candidates[i])], NonEmpty)

\* C8: generate_keywords returns at most 5 identities: one for each of the
\* first 5 trimmed non-empty candidates, in their input order.
C8_FirstFiveInOrder ==
  applied =>
    /\ Len(keyword_objects) <= 5
    /\ Len(keyword_objects) = Len(Take(Eligible, 5))
    /\ \A i \in 1..Len(keyword_objects) :
         /\ keyword_objects[i] \in 1..Len(keywords)
         /\ Lower(keywords[keyword_objects[i]]) = Lower(Eligible[i])

\* C8 witness: a reply of six non-empty candidates gave five identities
C8_Witness ==
  /\ applied
  /\ Len(Eligible) = 6
  /\ Len(keyword_objects) = 5

\* C9: the keyword table never holds two rows whose names are equal under
\* case-insensitive comparison.
C9_NoCaseDuplicates ==
  \A i, j \in 1..Len(keywords) : Lower(keywords[i]) = Lower(keywords[j]) => i = j

\* C9 witness: one call with the candidates "AT&T" and "at&t" on an empty
\* table has created a single row
C9_Witness ==
  /\ applied
  /\ \E i, j \in 1..Len(candidates) :
       candidates[i] = <<"A","T","&","T">> /\ candidates[j] = <<"a","t","&","t">>
  /\ keywords = << <<"A","T","&","T">> >>

\* the title ends with "..."
Ellipsized(t) == Len(t) >= 3 /\ SubSeq(t, Len(t) - 2, Len(t)) = <<".", ".", ".">>

\* the title's first character is an upper-case letter
StartsCapitalized(t) == t # <<>> /\ \E i \in 1..26 : t[1] = Uppers[i]

\* C10: the fallback title of a transcript of more than 7 words starts with a
\* capital letter, holds its first 7 words and ends with "..."; a transcript
\* of 7 words or fewer gives all its words, trailing punctuation stripped, and
\* no ellipsis.
C10_FallbackTitleEllipsis ==
  applied =>
    IF Len(words) > 7
      THEN /\ StartsCapitalized(title)
           /\ Ellipsized(title)
           /\ Lower(Take(title, Len(Join(Take(words, 7), <<" ">>))))
                = Lower(Join(Take(words, 7), <<" ">>))
      ELSE /\ ~Ellipsized(title)
           /\ Lower(title) = Lower(RStripSet(Join(words, <<" ">>), TitlePunctuation))

\* the Enrichment of an Item: its Transcription row
Enrichment(video) ==
  [ is_transcribed |-> video.is_transcribed, transcript_text |-> video.transcript_text,
    transcript_file |-> video.transcript_file, suggested_title |-> video.suggested_title,
    summary |-> video.summary, keywords |-> video.keywords ]

\* is_transcribed with the transcript text, the artifact path and the title set
Complete(video) ==
  /\ video.is_transcribed
  /\ video.transcript_text # None
  /\ video.transcript_file # None
  /\ video.suggested_title # None

\* nothing of the Enrichment written
Untouched(video) ==
  Enrichment(video) = Enrichment(NewVideo(video.filename, video.filepath, Metadata("video")))

\* C11: every committed state shows each Enrichment either untouched or
\* complete, and one iteration of the batch leaves the Enrichment of its own
\* Item as it was or complete and every other Item as it was.
C11_EnrichmentAtomic ==
  /\ [](\A i \in Ids : Untouched(videos[i]) \/ Complete(videos[i]))
  /\ [][ProcessItem =>
          /\ Len(videos') = Len(videos)
          /\ \A i \in Ids :
               IF i = video_ids[idx]
                 THEN Enrichment(videos'[i]) = Enrichment(videos[i]) \/ Complete(videos'[i])
                 ELSE videos'[i] = videos[i]]_vars

\* C11 witness: in a batch of two the first Item was enriched by the combined
\* commit and the second by the commit after the rollback
C11_Witness ==
  /\ Len(video_ids) = 2
  /\ idx = 3
  /\ enriched = {video_ids[1], video_ids[2]}
  /\ last.result = "fallback"
  /\ videos[video_ids[1]].status = "Transcribed"
  /\ videos[video_ids[2]].summary = None

\* the Item's file is at its stored path no more, nor anywhere under the folder
Vanished(video) == ~Exists(fs, video.filepath) /\ ~Reintroduced(video)

\* C12: no step removes an Item or changes which file name an identity stands
\* for, and a reconciliation that finds an Item's file gone leaves the Item in
\* the catalog with status Missing.
C12_ItemsNeverDeleted ==
  [][/\ Len(videos') >= Len(videos)
     /\ \A i \in Ids : videos'[i].filename = videos[i].filename
     /\ (ScanInputFolder \/ TranscribeUntranscribed) =>
          \A i \in Ids : Vanished(videos[i]) => videos'[i].status = "Missing"]_vars

\* C12 witness: a transcribed Item whose file is gone is in the catalog as
\* Missing after a reconciliation pass, beside a second Item
C12_Witness ==
  /\ quiet >= 1
  /\ Len(videos) = 2
  /\ \E i \in Ids :
       /\ Vanished(videos[i])
       /\ videos[i].is_transcribed
       /\ videos[i].status = "Missing"

\* C13: no two Items of the catalog share a filename.
C13_FilenameUnique ==
  \A i, j \in Ids : videos[i].filename = videos[j].filename => i = j

\* C13 witness: after a reconciliation pass two files named a.mp4 lie under
\* the folder, one of them not at the stored path, and one Item has that name
C13_Witness ==
  /\ quiet >= 1
  /\ Exists(fs, <<"d1", <<"a", ".mp4">>>>)
  /\ Exists(fs, <<"d2", <<"a", ".mp4">>>>)
  /\ Cardinality({i \in Ids : videos[i].filename = <<"a", ".mp4">>}) = 1

\* C14: every Item has exactly one row in the transcriptions table and every
\* row of that table belongs to an Item of the catalog.
C14_OneEnrichmentPerItem ==
  /\ \A i \in Ids :
       Cardinality({t \in 1..Len(transcriptions) : transcriptions[t].video_id = i}) = 1
  /\ \A t \in 1..Len(transcriptions) : transcriptions[t].video_id \in Ids

\* C14 witness: two Items were created by two different passes
C14_Witness ==
  /\ Len(videos) = 2
  /\ new_video_ids = <<2>>
  /\ Len(transcriptions) = 2

\* C15: a reconciliation pass that returns, returns each identity created by
\* the pass once and no other, and each of these Items is committed with
\* status New and is_transcribed false.
C15_ReturnsCreated ==
  [][(ScanInputFolder /\ new_video_ids' # Raised) =>
       /\ {new_video_ids'[k] : k \in 1..Len(new_video_ids')} = (Len(videos) + 1)..Len(videos')
       /\ Len(new_video_ids') = Len(videos') - Len(videos)
       /\ \A k \in 1..Len(new_video_ids') :
            /\ videos'[new_video_ids'[k]].status = "New"
            /\ ~videos'[new_video_ids'[k]].is_transcribed]_vars

\* C15 witness: a pass has returned one new identity; the Item that was in
\* the catalog before is transcribed, stands at its other path with status New
\* and was not returned
C15_Witness ==
  /\ quiet = 1
  /\ new_video_ids = <<2>>
  /\ videos[1].is_transcribed
  /\ videos[1].filepath = <<"d2", <<"a", ".mp4">>>>
  /\ videos[1].status = "New"

\* C16: without the source directory scan_input_folder raises to its caller
\* and the catalog is as before: no Item created, none marked Missing.
C16_NoFolderLeavesCatalog ==
  [][ScanNoFolder =>
       /\ new_video_ids' = Raised
       /\ videos' = videos
       /\ transcriptions' = transcriptions
       /\ keywords' = keywords]_vars

\* C16 witness: the raise happened with an Item in the catalog that is not
\* marked Missing although its file went with the directory
C16_Witness ==
  /\ ~folder
  /\ new_video_ids = Raised
  /\ Len(videos) >= 1
  /\ videos[1].status = "New"

RECURSIVE Value(_)
\* the number a string of decimal digits stands for, -1 if it is none
Value(digits) ==
  IF digits = <<>> THEN -1
  ELSE LET c == digits[Len(digits)]
           v == IF \E k \in 1..10 : DigitChars[k] = c
                  THEN (CHOOSE k \in 1..10 : DigitChars[k] = c) - 1 ELSE -1
           front == SubSeq(digits, 1, Len(digits) - 1)
       IN  IF v = -1 THEN -1
           ELSE IF front = <<>> THEN v
           ELSE IF Value(front) = -1 THEN -1 ELSE 10 * Value(front) + v

\* C17: a duration of s seconds is written M:SS below one hour and H:MM:SS
\* from one hour on, with H = s div 3600, M = (s mod 3600) div 60 and
\* SS = s mod 60 in whole seconds, the seconds on two digits, the minutes on
\* two digits in the hour form only; 75 gives "1:15", 3725 gives "1:02:05".
C17_DurationFormat ==
  (applied /\ seconds >= 0) =>
    LET s == seconds \div 10
        parts == SplitOn(formatted, ":")
        n == Len(parts)
    IN  /\ IF s < 3600
             THEN /\ n = 2
                  /\ Value(parts[1]) = s \div 60
                  /\ (Len(parts[1]) = 1 \/ parts[1][1] # "0")
             ELSE /\ n = 3
                  /\ Value(parts[1]) = s \div 3600
                  /\ parts[1][1] # "0"
                  /\ Len(parts[2]) = 2
                  /\ Value(parts[2]) = (s % 3600) \div 60
        /\ Len(parts[n]) = 2
        /\ Value(parts[n]) = s % 60
        /\ (seconds = 750 => formatted = <<"1", ":", "1", "5">>)
        /\ (seconds = 37250 => formatted = <<"1", ":", "0", "2", ":", "0", "5">>)

\* C17 witness: 3725 seconds have been formatted
C17_Witness == applied /\ seconds = 37250 /\ formatted # <<>>

\* q is size / (w * w) in units of 10^-places, rounded to a nearest one
Nearest(q, size, w, places) ==
  LET d == w * w
      t1 == Times10(size % d, w)
      t2 == Times10(t1.rem, w)
      floor == IF places = 1 THEN (size \div d) * 10 + t1.digit
                              ELSE (size \div d) * 100 + t1.digit * 10 + t2.digit
      rem == IF places = 1 THEN t1.rem ELSE t2.rem
  IN  \/ q = floor /\ rem <= d \div 2
      \/ q = floor + 1 /\ rem >= d \div 2

\* C18: a size is written in B below 1024, in KB below 1024^2, in MB below
\* 1024^3 and in GB from there on, as the size divided by the unit with one
\* decimal for KB and MB and two for GB; 500 gives "500 B", 2048 "2.0 KB",
\* 5242880 "5.0 MB".
C18_FilesizeFormat ==
  (applied /\ size_bytes >= 0) =>
    LET parts == SplitOn(formatted, " ")
        unit == parts[2]
        num == SplitOn(parts[1], ".")
        q1 == 10 * Value(num[1]) + Value(num[2])
        q2 == 100 * Value(num[1]) + Value(num[2])
    IN  /\ Len(parts) = 2
        /\ IF size_bytes < 1024
             THEN unit = <<"B">> /\ Len(num) = 1 /\ Value(num[1]) = size_bytes
           ELSE IF size_bytes < 1024 * 1024
             THEN /\ unit = <<"K", "B">>
                  /\ Len(num) = 2 /\ Len(num[2]) = 1
                  /\ Nearest(q1, size_bytes, 32, 1)
           ELSE IF size_bytes < 1024 * 1024 * 1024
             THEN /\ unit = <<"M", "B">>
                  /\ Len(num) = 2 /\ Len(num[2]) = 1
                  /\ Nearest(q1, size_bytes, 1024, 1)
           ELSE /\ unit = <<"G", "B">>
                /\ Len(num) = 2 /\ Len(num[2]) = 2
                /\ Nearest(q2, size_bytes, 32768, 2)
        /\ (size_bytes = 500 => formatted = <<"5", "0", "0", " ", "B">>)
        /\ (size_bytes = 2048 => formatted = <<"2", ".", "0", " ", "K", "B">>)
        /\ (size_bytes = 5242880 => formatted = <<"5", ".", "0", " ", "M", "B">>)

\* C18 witness: a size of more than 1024^3 bytes has been formatted
C18_Witness ==
  /\ applied
  /\ size_bytes > 1024 * 1024 * 1024
  /\ SubSeq(formatted, Len(formatted) - 1, Len(formatted)) = <<"G", "B">>

\* C19: when a reconciliation pass returns, the committed catalog shows every
\* status the pass set in its session: nothing is discarded when the session
\* closes, whichever order the files are found in.
C19_PassCommitsTransitions ==
  [][ScanInputFolder =>
       \A video_files \in Walks(fs) :
         LET r == scan_input_folder(videos, video_files, fs)
         IN  r.videos = r.session]_vars

\* the file names found with usable dimensions that no Item stands for
Unprocessed(rows) ==
  { basename(p) : p \in {x \in FoundFilepaths(fs) : fs[x] = "video"} }
    \ { rows[i].filename : i \in 1..Len(rows) }

\* C20: a pass in which the processing of one discovered file fails returns
\* to its caller without an exception, keeps what it committed and has
\* processed every other discovered file.
C20_FailureDoesNotAbort ==
  [][ScanFault =>
       /\ new_video_ids' # Raised
       /\ Len(videos') >= Len(videos)
       /\ \A i \in Ids : videos'[i].filename = videos[i].filename
       /\ Cardinality(Unprocessed(videos')) <= 1]_vars

\* the loop iteration for X = video_ids[idx] found X's row and no file at its
\* stored path
AbsentFileStep ==
  /\ ProcessItem
  /\ video_ids[idx] \in Ids
  /\ ~Exists(fs, videos[video_ids[idx]].filepath)

\* C21 as stated: when the file of a listed Item is absent at verification the
\* iteration commits status Missing for it, does not invoke the engine, leaves
\* its Enrichment as it was, does not count it, never sets ErrorTranscribing
\* and goes on with the next Item.
C21_AbsentFileSetsMissing ==
  [][AbsentFileStep =>
       /\ IsolatedStep
       /\ last'.fault # "engine"
       /\ videos'[video_ids[idx]].status = "Missing"]_vars

\* C21 amended: the engine is not invoked, the Enrichment is unchanged, the
\* Item is not counted and the batch goes on; the status is Missing when the
\* commit of that status succeeds, and when it fails the Item takes the Failed
\* path: ErrorTranscribing if that update commits, the committed row otherwise.
C21_AbsentFileHandled ==
  [][AbsentFileStep =>
       /\ IsolatedStep
       /\ last'.fault \in {"none", "missing_commit"}
       /\ last'.fault = "none" <=> last'.result = "missing"
       /\ last'.result = "missing" => videos'[video_ids[idx]].status = "Missing"
       /\ last'.result = "error" => videos'[video_ids[idx]].status = "Error Transcribing"
       /\ last'.result = "error_unrecorded"
            => videos'[video_ids[idx]] = videos[video_ids[idx]]]_vars

\* C21 witness: the first iteration of a batch of two found no file, the Item
\* is Missing and not counted, and the loop stands at the second Item
C21_Witness ==
  /\ Len(video_ids) = 2
  /\ idx = 2
  /\ pc = "batch"
  /\ last = [result |-> "missing", fault |-> "none"]
  /\ videos[video_ids[1]].status = "Missing"
  /\ transcribed_count = 0

\* the combined commit of the iteration for X = video_ids[idx] failed and the
\* commit after the rollback succeeded
FallbackStep == ProcessItem /\ last'.result = "fallback"

\* C22: when the combined commit fails and the retry with the mandatory fields
\* succeeds, the Item has is_transcribed true with the transcript text, the
\* artifact path and the title stored, its summary and its keyword
\* associations are those of before the iteration, no Keyword row created for
\* it remains, and the Item is counted.
C22_FallbackKeepsMandatory ==
  [][FallbackStep =>
       LET before == videos[video_ids[idx]]
           after  == videos'[video_ids[idx]]
       IN  /\ after.is_transcribed
           /\ after.transcript_text = "text"
           /\ after.transcript_file = TranscriptPath(before.filename)
           /\ after.suggested_title = "title"
           /\ after.summary = before.summary
           /\ after.keywords = before.keywords
           /\ keywords' = keywords
           /\ transcribed_count' = transcribed_count + 1
           /\ video_ids[idx] \in enriched']_vars

\* C22 witness: an Item without summary and keywords was enriched by the
\* commit after the rollback while the table held the Keyword rows of another
\* Item, and the batch counts it
C22_Witness ==
  /\ pc = "idle"
  /\ Len(video_ids) = 1
  /\ last = [result |-> "fallback", fault |-> "commit"]
  /\ videos[video_ids[1]].is_transcribed
  /\ videos[video_ids[1]].summary = None
  /\ videos[video_ids[1]].keywords = <<>>
  /\ keywords # <<>>
  /\ transcribed_count = 1

\* in the iteration for X = video_ids[idx] the combined commit and the commit
\* after the rollback both failed
BothCommitsFailStep == ProcessItem /\ last'.fault = "retry"

\* C23 as stated: when both commits fail the Item gets status
\* ErrorTranscribing, keeps its is_transcribed, is not counted, and the batch
\* goes on.
C23_BothFailSetsError ==
  [][BothCommitsFailStep =>
       (IsolatedStep /\ videos'[video_ids[idx]].status = "Error Transcribing")]_vars

\* C23 amended: the Item keeps its is_transcribed and the rest of its
\* Enrichment, is not counted and the batch goes on; its status is
\* ErrorTranscribing when the update of the status commits, and its committed
\* row is unchanged when that update fails too.
C23_BothFailIsolated ==
  [][BothCommitsFailStep =>
       /\ IsolatedStep
       /\ last'.result \in {"error", "error_unrecorded"}
       /\ video_ids[idx] \notin enriched' \ enriched
       /\ last'.result = "error" => videos'[video_ids[idx]].status = "Error Transcribing"
       /\ last'.result # "error" => videos'[video_ids[idx]] = videos[video_ids[idx]]]_vars

\* C23 witness: both commits failed for the first Item of a batch of two, the
\* Item is ErrorTranscribing and untranscribed, and the loop stands at the
\* second Item
C23_Witness ==
  /\ Len(video_ids) = 2
  /\ idx = 2
  /\ pc = "batch"
  /\ last = [result |-> "error", fault |-> "retry"]
  /\ videos[video_ids[1]].status = "Error Transcribing"
  /\ ~videos[video_ids[1]].is_transcribed
  /\ transcribed_count = 0

\* the iteration for X = video_ids[idx] ended in the except branch while X was
\* untranscribed
FailedUntranscribedStep ==
  /\ ProcessItem
  /\ last'.result \in {"error", "error_unrecorded"}
  /\ ~videos[video_ids[idx]].is_transcribed

\* the ids a sequence of ids holds
Listed(ids) == { ids[k] : k \in 1..Len(ids) }

\* id i is selected by transcribe_videos(None) and, its file being present, by
\* get_untranscribed_videos
Selected(i, rows, f) ==
  /\ i \in Listed(DefaultVideoIds(rows))
  /\ Exists(f, rows[i].filepath) => i \in Listed(get_untranscribed_videos(rows, f).ids)

\* X is not processed again in this batch, stays untranscribed and is selected
\* by the next default selection
StaysEligible ==
  /\ ~videos'[video_ids[idx]].is_transcribed
  /\ video_ids' = video_ids
  /\ idx' = idx + 1
  /\ \A k \in (idx + 1)..Len(video_ids) : video_ids[k] # video_ids[idx]
  /\ Selected(video_ids[idx], videos', fs')

\* an Item that is ErrorTranscribing and untranscribed is selected whenever
\* the selection is made, and becomes Transcribed when the engine and the
\* combined commit succeed for it
Reprocessable ==
  /\ [](\A i \in Ids :
          (videos[i].status = "Error Transcribing" /\ ~videos[i].is_transcribed)
            => Selected(i, videos, fs))
  /\ [][(/\ ProcessItem
         /\ last'.result = "done"
         /\ videos[video_ids[idx]].status = "Error Transcribing"
         /\ ~videos[video_ids[idx]].is_transcribed)
          => (/\ videos'[video_ids[idx]].status = "Transcribed"
              /\ videos'[video_ids[idx]].is_transcribed)]_vars

\* C24 as stated: an Item that took the Failed path while untranscribed has
\* status ErrorTranscribing and is_transcribed false, is not retried in the
\* same batch, is included by the next default selection while its file is
\* present, and becomes Transcribed if the engine and the commit then succeed.
C24_FailedIsErrorAndEligible ==
  /\ [][FailedUntranscribedStep =>
          (StaysEligible /\ videos'[video_ids[idx]].status = "Error Transcribing")]_vars
  /\ Reprocessable

\* C24 amended: the Item has is_transcribed false and stays eligible as
\* stated; its status is ErrorTranscribing when the update of the status
\* commits, and the status it had before when that update fails.
C24_FailedStaysEligible ==
  /\ [][FailedUntranscribedStep =>
          /\ StaysEligible
          /\ last'.result = "error"
               => videos'[video_ids[idx]].status = "Error Transcribing"
          /\ last'.result # "error"
               => videos'[video_ids[idx]].status = videos[video_ids[idx]].status]_vars
  /\ Reprocessable

\* C24 witness: a batch has ended whose only Item failed in the engine; the
\* Item is ErrorTranscribing, untranscribed, its file is present and the
\* default selection holds it
C24_Witness ==
  /\ pc = "idle"
  /\ Len(video_ids) = 1
  /\ last = [result |-> "error", fault |-> "engine"]
  /\ videos[video_ids[1]].status = "Error Transcribing"
  /\ ~videos[video_ids[1]].is_transcribed
  /\ Exists(fs, videos[video_ids[1]].filepath)
  /\ video_ids[1] \in Listed(DefaultVideoIds(videos))
  /\ video_ids[1] \in Listed(get_untranscribed_videos(videos, fs).ids)

\* the transcript generate_title_and_summary was given
transcript_text == Join(words, <<" ">>)

\* the text generator replied and a marker is missing from the reply
Unparsable == reply.client = "replies" /\ ~Parsable(Strip(reply.content))

\* C25: when the text generator replies and the reply cannot be parsed, the
\* title and the summary are those of the local fallback computed from the
\* transcript, not text of the reply.
C25_UnparsableUsesFallback ==
  (applied /\ Unparsable)
    => /\ title = FallbackTitle(transcript_text)
       /\ summary = FallbackSummary(transcript_text)

\* C26: the summary returned for a non-empty transcript has at most 30 words,
\* whether the reply was parsed, could not be parsed, the generator was
\* unavailable or raised.
C26_SummaryWithinThirtyWords ==
  (applied /\ transcript_text # <<>>) => Len(SplitWS(summary)) <= SummaryWords

\* the identities generate_keywords is to return: the first five candidates
\* of the reply after trimming
Kept == Take(Eligible, KeywordLimit)

\* a row of the table before the call has the name k under lower()
Known(k) == \E j \in 1..Len(keywords) : Lower(keywords[j]) = Lower(k)

\* C27: a candidate whose lowercase form is the lowercase name of an existing
\* Keyword resolves to that row; no row is created for it and the names of the
\* existing rows are unchanged, whatever the casing of the candidate.
C27_ExistingKeywordReused ==
  [][GenerateKeywords =>
       /\ Len(keywords') >= Len(keywords)
       /\ SubSeq(keywords', 1, Len(keywords)) = keywords
       /\ Len(keyword_objects') = Len(Kept)
       /\ \A i \in 1..Len(Kept) :
            Known(Kept[i]) =>
              /\ keyword_objects'[i] \in 1..Len(keywords)
              /\ Lower(keywords[keyword_objects'[i]]) = Lower(Kept[i])
       /\ \A j \in (Len(keywords) + 1)..Len(keywords') : ~Known(keywords'[j])]_vars

\* C27 witness: the candidate "at&t" was resolved to the row "AT&T" that an
\* earlier reply had created after the row of another keyword
C27_Witness ==
  /\ applied
  /\ candidates = << <<"a","t","&","t">> >>
  /\ Len(keywords) = 2
  /\ keywords[2] = <<"A","T","&","T">>
  /\ keyword_objects = <<2>>

\* a compound cased segment by segment: each segment between the separators
\* sep with its table casing or capitalized, rejoined with sep
Segmented(token, sep) ==
  LET parts == SplitOn(token, sep)
  IN  Join([i \in 1..Len(parts) |-> CaseWord(parts[i])], <<sep>>)

\* the casing of one token of the keyword: the table's for a token of the
\* table, segment by segment for a compound, title case otherwise
TokenCase(token) ==
  IF InSpecial(token) THEN special_cases(token)
  ELSE IF HasChar(token, "-") THEN Segmented(token, "-")
  ELSE IF HasChar(token, "&") THEN Segmented(token, "&")
  ELSE Capitalize(token)

\* C28: the output of format_keyword_case holds, token by token, the table
\* casing of every token of the table and the title case of every other
\* token, compounds cased segment by segment, also when another token of the
\* keyword holds a hyphen or an ampersand.
C28_TokensCasedAlone ==
  applied =>
    formatted = Join([i \in 1..Len(keyword) |-> TokenCase(Lower(keyword[i]))], <<" ">>)

\* a reconciliation pass, with or without a failure at a discovered file
ReconciliationPass == ScanInputFolder \/ ScanFault

\* Item i was not Missing, its stored path is neither in the found-set nor on
\* disk, and no file with its filename lies elsewhere under the folder
Gone(i) ==
  /\ videos[i].status \in {"New", "Transcribed", "Error Transcribing"}
  /\ videos[i].filepath \notin FoundFilepaths(fs)
  /\ ~Exists(fs, videos[i].filepath)
  /\ ~Reintroduced(videos[i])

\* C29: after a reconciliation pass every Item that was not Missing before it
\* and whose stored path is neither in the found-set nor on disk is committed
\* with status Missing, whatever its status was, unless a file with its
\* filename was discovered at another path in the pass: no pass ends with
\* such an Item committed otherwise.
C29_GoneItemsCommittedMissing ==
  [][(\E i \in Ids : Gone(i) /\ videos'[i] # [videos[i] EXCEPT !.status = "Missing"])
       => ~ReconciliationPass]_vars

\* C29 witness: one pass has left two Items Missing whose files are gone, one
\* transcribed and one not
C29_Witness ==
  /\ quiet = 1
  /\ Len(videos) = 2
  /\ \A i \in Ids : Vanished(videos[i]) /\ videos[i].status = "Missing"
  /\ videos[1].is_transcribed # videos[2].is_transcribed

\* C30: after a reconciliation pass no Item whose stored path was found in the
\* pass, in the found-set or on disk, is committed with status Missing.
C30_MissingMeansNotFound ==
  [][ScanInputFolder =>
       \A i \in 1..Len(videos') :
         videos'[i].status = "Missing"
           => (/\ videos'[i].filepath \notin FoundFilepaths(fs)
               /\ ~Exists(fs, videos'[i].filepath))]_vars

\* the paths other than the stored one at which the walk finds the Item's
\* filename
OtherPaths(video) ==
  { p \in FoundFilepaths(fs) : basename(p) = video.filename /\ p # video.filepath }

Created == (Len(videos) + 1)..Len(videos')

\* C32: no Item is created for a discovered file whose extracted metadata
\* lacks a width or a height or has it zero: every Item a step creates stands
\* for a file with both, a step adds as many Enrichments as Items, and a
\* clean pass leaves no discovered file with usable dimensions without Item,
\* so a skipped file does not stop the pass.
C32_NoItemWithoutDimensions ==
  [][/\ \A i \in Created :
          \A video_metadata \in extract_metadata(fs[videos'[i].filepath]) :
            /\ "width" \in DOMAIN video_metadata /\ video_metadata.width > 0
            /\ "height" \in DOMAIN video_metadata /\ video_metadata.height > 0
     /\ Len(transcriptions') - Len(transcriptions) = Len(videos') - Len(videos)
     /\ Unprocessed(videos') # {} => ~ScanInputFolder]_vars

\* C32 witness: a pass over d1/a.mp4 without usable dimensions and d1/a.mkv
\* with them has created the one Item of a.mkv
C32_Witness ==
  /\ quiet = 1
  /\ fs[<<"d1", <<"a", ".mp4">>>>] = "nodims"
  /\ fs[<<"d1", <<"a", ".mkv">>>>] = "video"
  /\ ~Exists(fs, <<"d2", <<"a", ".mp4">>>>)
  /\ Len(videos) = 1
  /\ videos[1].filename = <<"a", ".mkv">>
  /\ Len(transcriptions) = 1

\* Item i has reached status Transcribed: it shows it, or it holds the summary
\* that only the combined commit writes, together with that status
ReachedTranscribed(i) == videos[i].status = "Transcribed" \/ videos[i].summary # None

\* C33: an Item that has reached status Transcribed leaves it only to Missing
\* and from there returns to Transcribed; no step shows it New or
\* ErrorTranscribing again.
C33_TranscribedIsTerminal ==
  [][\A i \in Ids :
       ReachedTranscribed(i) => videos'[i].status \in {"Transcribed", "Missing"}]_vars

\* C34: in every committed state of the catalog an Item with status
\* Transcribed has is_transcribed true, after the migration of an earlier
\* database, after every reconciliation pass and inside and after every batch.
C34_TranscribedImpliesFlag ==
  \A i \in Ids : videos[i].status = "Transcribed" => videos[i].is_transcribed

\* C34 witness: the transcribed row of an earlier database, without summary
\* and keywords, has status Transcribed and a reconciliation pass has run
C34_Witness ==
  /\ pc = "idle"
  /\ quiet = 1
  /\ Len(videos) = 1
  /\ Len(transcriptions) = 1
  /\ videos[1].status = "Transcribed"
  /\ videos[1].is_transcribed
  /\ videos[1].summary = None
  /\ keywords = <<>>

\* C35: once an Item is committed with is_transcribed true, no later step
\* sets the flag back to false or clears its transcript text, its artifact
\* path or its title.
C35_TranscribedFlagMonotone ==
  [][\A i \in Ids :
       videos[i].is_transcribed =>
         /\ videos'[i].is_transcribed
         /\ videos'[i].transcript_text # None
         /\ videos'[i].transcript_file # None
         /\ videos'[i].suggested_title # None]_vars

\* C35 witness: a transcribed Item was processed again and failed in the
\* engine; it is ErrorTranscribing and still holds its transcript
C35_Witness ==
  /\ pc = "idle"
  /\ Len(video_ids) = 1
  /\ last = [result |-> "error", fault |-> "engine"]
  /\ videos[video_ids[1]].status = "Error Transcribing"
  /\ videos[video_ids[1]].is_transcribed
  /\ videos[video_ids[1]].transcript_text # None

\* the physical attributes of an Item
Physical(video) == [width |-> video.width, height |-> video.height]

\* C36: a reconciliation pass changes nothing of an existing Item but its
\* status and its stored path: the Enrichment, the physical attributes and
\* the Keyword table are as before, and the status of an Item that is not
\* Missing and whose file is present is as before; no pass ends otherwise.
C36_PassTouchesStatusAndPath ==
  [][(\/ keywords' # keywords
      \/ \E i \in Ids :
           \/ videos'[i] # [videos[i] EXCEPT !.status = videos'[i].status,
                                             !.filepath = videos'[i].filepath]
           \/ Enrichment(videos'[i]) # Enrichment(videos[i])
           \/ Physical(videos'[i]) # Physical(videos[i])
           \/ /\ videos[i].status # "Missing"
              /\ Exists(fs, videos[i].filepath)
              /\ videos'[i].status # videos[i].status)
       => ~ReconciliationPass]_vars

\* C36 witness: a pass has run over a catalog with an enriched Item that is
\* ErrorTranscribing, its file present, and Keyword rows
C36_Witness ==
  /\ quiet = 1
  /\ keywords # <<>>
  /\ \E i \in Ids :
       /\ videos[i].status = "Error Transcribing"
       /\ Exists(fs, videos[i].filepath)
       /\ videos[i].keywords # <<>>
       /\ videos[i].width > 0

\* the iteration for X = video_ids[idx] ended in the except branch
FailedStep == ProcessItem /\ last'.result \in {"error", "error_unrecorded"}

\* C37 as stated: when an Item takes the Failed path its status becomes
\* ErrorTranscribing and that is the only committed change: its Enrichment and
\* its keyword associations are as before, the Keyword rows created during the
\* attempt are rolled back, and every other Item is unchanged.
C37_FailedPathSetsError ==
  [][FailedStep =>
       /\ IsolatedStep
       /\ Enrichment(videos'[video_ids[idx]]) = Enrichment(videos[video_ids[idx]])
       /\ videos'[video_ids[idx]].status = "Error Transcribing"]_vars

\* C37 amended: when an Item takes the Failed path nothing is committed but,
\* at most, that Item's status becoming ErrorTranscribing (the update of the
\* status may fail too, and then the row is as it was): its Enrichment and its
\* keyword associations are as before, the Keyword rows created during the
\* attempt are rolled back, and every other Item is unchanged.
C37_FailedPathFrame ==
  [][FailedStep =>
       /\ IsolatedStep
       /\ Enrichment(videos'[video_ids[idx]]) = Enrichment(videos[video_ids[idx]])
       /\ videos'[video_ids[idx]].status
            \in {videos[video_ids[idx]].status, "Error Transcribing"}
       /\ last'.result = "error" => videos'[video_ids[idx]].status = "Error Transcribing"]_vars

\* C37 witness: both commits failed for an Item after the reply had brought
\* new keywords; the Item is ErrorTranscribing without Enrichment, the Keyword
\* table is empty and a second Item is in the catalog
C37_Witness ==
  /\ pc = "idle"
  /\ Len(video_ids) = 1
  /\ Len(videos) = 2
  /\ last = [result |-> "error", fault |-> "retry"]
  /\ videos[video_ids[1]].status = "Error Transcribing"
  /\ Untouched(videos[video_ids[1]])
  /\ keywords = <<>>

\* C38: distinct Items have distinct artifact paths: no two Items of the
\* catalog are recorded with the same transcript_file, also when their
\* filenames differ only in the extension, so the report written for one Item
\* never replaces the report recorded for another.
C38_DistinctArtifactPaths ==
  \A i, j \in Ids :
    (/\ i # j
     /\ videos[i].transcript_file # None
     /\ videos[j].transcript_file # None)
      => videos[i].transcript_file # videos[j].transcript_file

\* C39: format_keyword_case does not depend on the casing of its input and is
\* idempotent: the output for a keyword is the output for its lowercase form,
\* and the function applied to its own output returns that output, so that
\* the lowercase form of the output is a stable key.
C39_CaseInsensitiveIdempotent ==
  applied =>
    /\ formatted = format_keyword_case(Lower(Join(keyword, <<" ">>)))
    /\ format_keyword_case(formatted) = formatted
    /\ Lower(format_keyword_case(formatted)) = Lower(formatted)

\* the loop stands at a listed identity while the batch runs, and behind the
\* last one when transcribe_videos has returned
InBatch ==
  /\ pc = "batch" => idx \in 1..Len(video_ids)
  /\ (pc = "idle" /\ last # NoStep) => idx = Len(video_ids) + 1

\* a step of a running batch attempts the identity at idx and no other row,
\* moves to the next identity of the same list, and returns after the last
OneAtATime ==
  pc = "batch" =>
    /\ video_ids' = video_ids
    /\ idx' = idx + 1
    /\ pc' = IF idx = Len(video_ids) THEN "idle" ELSE "batch"
    /\ last'.result \in {"unknown", "missing", "error", "error_unrecorded", "done", "fallback"}
    /\ Len(videos') = Len(videos)
    /\ \A i \in Ids : i # video_ids[idx] => videos'[i] = videos[i]

\* C40: transcribe_videos attempts every listed identity once, in list order
\* and one at a time, whatever the outcome of each item, and then returns:
\* every running batch terminates.
C40_EveryIdOnceThenReturns ==
  /\ []InBatch
  /\ [][OneAtATime]_vars
  /\ (pc = "batch" ~> pc = "idle")

\* C40 witness: a batch of two identities has returned after the update of
\* the status failed for the second, and the first was enriched
C40_Witness ==
  /\ pc = "idle"
  /\ Len(video_ids) = 2
  /\ idx = 3
  /\ last.result = "error_unrecorded"
  /\ enriched # {}

====
